---- MODULE Spec2Model ----
(***************************************************************************)
(* Model of src/src/detour.rs: the ClientHello detector (is_hello), the   *)
(* SNI scan (find_sni), the record splitter (fragmentate) and the          *)
(* AsyncWrite / AsyncRead implementation of Detour<T>.                     *)
(*                                                                         *)
(* A byte buffer (&[u8], Vec<u8>) is a record [bytes, zeros]: the bytes    *)
(* of `bytes` followed by `zeros` bytes of value 0.  The run of zeros      *)
(* lets a buffer longer than 65535 bytes be written down, so that the      *)
(* `as u16` conversions of fragmentate keep their real width.              *)
(***************************************************************************)
EXTENDS Integers, Sequences, FiniteSets, TLC

VARIABLES
    state,      \* Detour.state : DetourState
    log,        \* physical poll_write calls on sock since the last poll_write that began in Normal
    calls,      \* calls made on sock by the most recent operation of the wrapper
    ret,        \* what the most recent operation returned to its caller
    buf,        \* the buffer passed to the most recent poll_write
    src,        \* the buffer the stored fragments were computed from
    wake,       \* who arranged a wake-up during the most recent operation
    alive,      \* FALSE once an operation has panicked
    fin,        \* pure-function runs: the input buffer
    fout        \* pure-function runs: the function applied and its result

vars == <<state, log, calls, ret, buf, src, wake, alive, fin, fout>>

(***************************************************************************)
(* Byte buffers.                                                           *)
(***************************************************************************)
Bytes(s) == [bytes |-> s, zeros |-> 0]

BLen(b) == Len(b.bytes) + b.zeros

\* data[i], 0-based; the caller checks i < BLen(data) first
At(data, i) == IF i < Len(data.bytes) THEN data.bytes[i + 1] ELSE 0

Zeros(k) == [i \in 1..k |-> 0]

\* the buffer written out byte by byte up to (not including) offset k
Flat(b, k) ==
    IF k <= Len(b.bytes) THEN SubSeq(b.bytes, 1, k)
    ELSE b.bytes \o Zeros(k - Len(b.bytes))

\* slice::split_at, for mid <= BLen(data)
SplitLeft(data, mid) ==
    IF mid <= Len(data.bytes)
    THEN [bytes |-> SubSeq(data.bytes, 1, mid), zeros |-> 0]
    ELSE [bytes |-> data.bytes, zeros |-> mid - Len(data.bytes)]

SplitRight(data, mid) ==
    IF mid <= Len(data.bytes)
    THEN [bytes |-> SubSeq(data.bytes, mid + 1, Len(data.bytes)), zeros |-> data.zeros]
    ELSE [bytes |-> << >>, zeros |-> BLen(data) - mid]

\* v[i] = x, for i < BLen(v)
SetAt(v, i, x) ==
    IF i < Len(v.bytes)
    THEN [v EXCEPT !.bytes[i + 1] = x]
    ELSE [bytes |-> Flat(v, i) \o <<x>>, zeros |-> BLen(v) - (i + 1)]

\* Vec::extend_from_slice
Extend(v, s) ==
    [bytes |-> Flat(v, BLen(v)) \o s.bytes, zeros |-> s.zeros]

\* the two buffers hold the same bytes
SameBytes(a, b) ==
    /\ BLen(a) = BLen(b)
    /\ LET k == IF Len(a.bytes) >= Len(b.bytes) THEN Len(a.bytes) ELSE Len(b.bytes)
       IN  \A i \in 0..(k - 1) : i < BLen(a) => At(a, i) = At(b, i)

(***************************************************************************)
(* Widths.                                                                 *)
(***************************************************************************)
U16 == 65536

\* (x as u16).to_be_bytes()
to_be_bytes(x) == << (x % U16) \div 256, (x % U16) % 256 >>

(***************************************************************************)
(* is_hello, find_sni, fragmentate.  An out-of-range index panics.         *)
(***************************************************************************)
Handshake == 22
ClientHelloType == 1

\* data[0] == 0x16 && data[5] == 0x01
is_hello(data) ==
    IF BLen(data) = 0 THEN "Panic"
    ELSE IF At(data, 0) # Handshake THEN "False"
    ELSE IF BLen(data) <= 5 THEN "Panic"
    ELSE IF At(data, 5) = ClientHelloType THEN "True"
    ELSE "False"

None == [kind |-> "None", v |-> 0]
Some(x) == [kind |-> "Some", v |-> x]
IndexPanic == [kind |-> "Panic", v |-> 0]

\* whether data[at] and data[at + 1] are both in range
CanU16(data, at) == at + 1 < BLen(data)

u16_at(data, at) == At(data, at) * 256 + At(data, at + 1)

RandomOffset == 43

RECURSIVE ScanExt(_, _, _)
\* the loop skipping an extension's data but not its 2-byte length field
ScanExtNoLen(data, offset, ext_end) ==
    IF ~(offset < ext_end) THEN None
    ELSE IF ~CanU16(data, offset) THEN IndexPanic
    ELSE IF u16_at(data, offset) = 0
         THEN IF ~CanU16(data, offset + 2) THEN IndexPanic
              ELSE Some((offset + 2) + u16_at(data, offset + 2) \div 2)
    ELSE IF ~CanU16(data, offset + 2) THEN IndexPanic
    ELSE ScanExt(data, (offset + 2) + u16_at(data, offset + 2), ext_end)

\* the loop returning half the length without the offset it counts from
ScanExtNoBase(data, offset, ext_end) ==
    IF ~(offset < ext_end) THEN None
    ELSE IF ~CanU16(data, offset) THEN IndexPanic
    ELSE IF u16_at(data, offset) = 0
         THEN IF ~CanU16(data, offset + 2) THEN IndexPanic
              ELSE Some(u16_at(data, offset + 2) \div 2)
    ELSE IF ~CanU16(data, offset + 2) THEN IndexPanic
    ELSE ScanExt(data, (offset + 2) + 2 + u16_at(data, offset + 2), ext_end)

\* the while loop of find_sni, entered with `offset`
ScanExt(data, offset, ext_end) ==
    IF ~(offset < ext_end) THEN None
    ELSE IF ~CanU16(data, offset) THEN IndexPanic
    ELSE IF u16_at(data, offset) = 0
         THEN IF ~CanU16(data, offset + 2) THEN IndexPanic
              ELSE Some((offset + 2) + u16_at(data, offset + 2) \div 2)
    ELSE IF ~CanU16(data, offset + 2) THEN IndexPanic
    ELSE ScanExt(data, (offset + 2) + 2 + u16_at(data, offset + 2), ext_end)

find_sni(data) ==
    LET o0 == RandomOffset IN
    IF ~(o0 < BLen(data)) THEN IndexPanic ELSE
    LET o1 == o0 + 1 + At(data, o0) IN
    IF ~CanU16(data, o1) THEN IndexPanic ELSE
    LET o2 == o1 + 2 + u16_at(data, o1) IN
    IF ~(o2 < BLen(data)) THEN IndexPanic ELSE
    LET o3 == o2 + 1 + At(data, o2) IN
    IF ~CanU16(data, o3) THEN IndexPanic ELSE
    LET ext_end == o3 + 2 + u16_at(data, o3) IN
    ScanExt(data, o3 + 2, ext_end)

\* find_sni(data).unwrap_or(5 + (data.len() - 5) / 2), for data.len() >= 5
SplitMid(data) ==
    LET s == find_sni(data) IN
    IF s.kind = "Some" THEN s.v ELSE 5 + (BLen(data) - 5) \div 2

Panicked == [kind |-> "Panic"]

\* fragmentate with the length bytes of `first` written one place too far
SplitShifted(data, mid) ==
    IF mid > BLen(data) THEN Panicked
    ELSE
    LET left == SplitLeft(data, mid)
        right == SplitRight(data, mid)
        size1 == to_be_bytes(BLen(left) - 5)
        first == SetAt(SetAt(left, 4, size1[1]), 5, size1[2])
        size2 == to_be_bytes(BLen(right))
        second == Extend(Bytes(<< At(data, 0), At(data, 1), At(data, 2),
                                  size2[1], size2[2] >>), right)
    IN  [kind |-> "Ok", first |-> first, second |-> second]

\* the body of fragmentate after `mid` is chosen
Split(data, mid) ==
    IF mid > BLen(data) THEN Panicked
    ELSE
    LET left == SplitLeft(data, mid)
        right == SplitRight(data, mid)
        size1 == to_be_bytes(BLen(left) - 5)
        first == SetAt(SetAt(left, 3, size1[1]), 4, size1[2])
        size2 == to_be_bytes(BLen(right))
        second == Extend(Bytes(<< At(data, 0), At(data, 1), At(data, 2),
                                  size2[1], size2[2] >>), right)
    IN  [kind |-> "Ok", first |-> first, second |-> second]

\* called only with is_hello(data), so data.len() > 5
fragmentate(data) ==
    IF find_sni(data).kind = "Panic" THEN Panicked
    ELSE Split(data, SplitMid(data))

(***************************************************************************)
(* Buffers the operations are run on: TLS records carrying a ClientHello,  *)
(* laid out as the struct comments of find_sni and fragmentate describe,   *)
(* their truncations, records with inconsistent length fields, records     *)
(* that are no ClientHello, and buffers shorter than a record header.      *)
(***************************************************************************)
U16BE(n) == << n \div 256, n % 256 >>

Random32 == [i \in 1..32 |-> 100 + i]

Host(h) == [i \in 1..h |-> 96 + i]

\* Extension: extension_type, extension_data<0..2^16-1>
Ext(type, body) == U16BE(type) \o U16BE(Len(body)) \o body

\* server_name extension with one host_name entry of h bytes
SniExt(h) == Ext(0, U16BE(h + 3) \o <<0>> \o U16BE(h) \o Host(h))

\* an extension of another type (supported_groups) with k bytes of data
OtherExt(k) == Ext(10, [i \in 1..k |-> 7])

\* ClientHello: legacy_version, random, legacy_session_id, cipher_suites,
\* legacy_compression_methods, extensions
HelloBody(sid, cs, exts) ==
    <<3, 3>> \o Random32 \o <<Len(sid)>> \o sid \o U16BE(Len(cs)) \o cs
             \o <<1, 0>> \o U16BE(Len(exts)) \o exts

\* TLSPlaintext(handshake) holding Handshake(client_hello) holding the body
HelloRecord(sid, cs, exts) ==
    LET body == HelloBody(sid, cs, exts)
        hs == <<ClientHelloType, 0>> \o U16BE(Len(body)) \o body
    IN  <<Handshake, 3, 1>> \o U16BE(Len(hs)) \o hs

\* byte offset of the first hostname byte of SniExt when `before` bytes of
\* extensions precede it
HostOffset(sid, cs, before) ==
    RandomOffset + 1 + Len(sid) + 2 + Len(cs) + 2 + 2 + Len(before) + 9

MaxHost == 12

Sids == { << >>, <<9, 9>> }
Suites == { <<19, 1>>, <<19, 1, 19, 2>> }

WellFormedSni ==
    { [sid |-> sid, cs |-> cs, before |-> before, h |-> h] :
        sid \in Sids, cs \in Suites,
        before \in { << >>, OtherExt(2), OtherExt(0) \o OtherExt(3) },
        h \in 1..MaxHost }

SniRecord(p) == HelloRecord(p.sid, p.cs, p.before \o SniExt(p.h))

NoSniExts == { << >>, OtherExt(0), OtherExt(4), OtherExt(2) \o OtherExt(1) }

WellFormedNoSni ==
    { HelloRecord(sid, cs, exts) : sid \in Sids, cs \in Suites, exts \in NoSniExts }

Sample == HelloRecord(<< >>, <<19, 1>>, OtherExt(2) \o SniExt(4))

\* every proper prefix of a well-formed record, from the empty buffer on
Truncated == { SubSeq(Sample, 1, k) : k \in 0..(Len(Sample) - 1) }

\* length fields that disagree with the bytes present
Inconsistent ==
    LET n == Len(Sample) IN
    { [Sample EXCEPT ![RandomOffset + 1] = 200],       \* session id length
      [Sample EXCEPT ![RandomOffset + 2] = 1],         \* cipher_suites length, high byte
      [Sample EXCEPT ![RandomOffset + 6] = 40],        \* compression methods length
      [Sample EXCEPT ![RandomOffset + 8] = 90],        \* extensions length
      [Sample EXCEPT ![RandomOffset + 12] = 120],      \* first extension's length
      [Sample EXCEPT ![n - 10] = 255],                 \* server_name's length, high byte
      [Sample EXCEPT ![n - 9] = 250] }                 \* server_name's length, low byte

\* not a ClientHello: another content type, another handshake message
NotHello ==
    { [Sample EXCEPT ![1] = 23], [Sample EXCEPT ![6] = 2],
      <<23, 3, 3, 0, 2, 7, 7>>, <<23, 3, 3>>, <<21>> }

LongTail == 70000

\* records followed by a long run of zero bytes
Long ==
    { [bytes |-> Sample, zeros |-> LongTail],
      [bytes |-> <<Handshake, 3, 1, 0, 0, ClientHelloType>>, zeros |-> 2 * LongTail],
      [bytes |-> <<Handshake, 3, 1, 0, 0, ClientHelloType>>, zeros |-> LongTail] }

FnInputs ==
    { Bytes(SniRecord(p)) : p \in WellFormedSni }
    \cup { Bytes(s) : s \in WellFormedNoSni \cup Truncated \cup Inconsistent \cup NotHello }
    \cup Long

(***************************************************************************)
(* Pure-function runs: poll_write's path through is_hello and fragmentate  *)
(* on one input buffer.                                                    *)
(***************************************************************************)
NoBuf == Bytes(<< >>)

CallIsHello ==
    /\ fout.fn = "none"
    /\ fout' = [fn |-> "is_hello", r |-> is_hello(fin)]
    /\ UNCHANGED <<state, log, calls, ret, buf, src, wake, alive, fin>>

CallFindSni ==
    /\ fout.fn = "is_hello"
    /\ fout.r = "True"
    /\ fout' = [fn |-> "find_sni", r |-> find_sni(fin)]
    /\ UNCHANGED <<state, log, calls, ret, buf, src, wake, alive, fin>>

CallFragmentate ==
    /\ fout.fn = "find_sni"
    /\ fout' = [fn |-> "fragmentate", r |-> fragmentate(fin)]
    /\ UNCHANGED <<state, log, calls, ret, buf, src, wake, alive, fin>>

(***************************************************************************)
(* The sink (sock) and the results of a poll.                              *)
(***************************************************************************)
Ready(n) == [kind |-> "Ready", n |-> n]
Pending == [kind |-> "Pending", n |-> 0]
Err == [kind |-> "Err", n |-> 0]
PanicRet == [kind |-> "Panic", n |-> 0]
NoRet == [kind |-> "None", n |-> 0]

\* byte counts a sink may report for a write of len bytes: all of them, or part
Accept(len) == { len, len \div 2 }

\* outcomes of sock.poll_write(cx, data)
SinkWrite(data) == { Ready(n) : n \in Accept(BLen(data)) } \cup { Pending, Err }

\* outcomes of sock.poll_flush / poll_shutdown / poll_read
SinkUnit == { Ready(0), Pending, Err }

\* one call on sock: the operation and the arm of the wrapper that made it, the
\* buffer the wrapper had been called with, the bytes offered to the sink and
\* the sink's result
Call(op, arm, arg, data, r) ==
    [op |-> op, arm |-> arm, arg |-> arg, data |-> data, res |-> r]

\* a sink that returns Pending has taken the waker of cx and wakes it later
SinkWake(r) == IF r.kind = "Pending" THEN "sink" ELSE "none"

MaxLog == 2

(***************************************************************************)
(* DetourState and Detour::new.                                            *)
(***************************************************************************)
Normal == [tag |-> "Normal"]
SendFirst(first, second) == [tag |-> "SendFirst", first |-> first, second |-> second]
SendSecond(second, written) == [tag |-> "SendSecond", second |-> second, written |-> written]

Hello1 == Bytes(HelloRecord(<< >>, <<19, 1>>, OtherExt(2) \o SniExt(4)))
Hello2 == Bytes(HelloRecord(<< >>, <<19, 1, 19, 2>>, OtherExt(0)))
HelloCut == Bytes(SubSeq(Sample, 1, 20))
Data1 == Bytes(<<23, 3, 3, 0, 2, 7, 7>>)
Short1 == Bytes(<<Handshake, 3, 1>>)

\* buffers a caller passes to poll_write
Bufs == { Hello1, Hello2, HelloCut, Data1, Short1, NoBuf }

Init ==
    /\ state = Normal
    /\ log = << >>
    /\ calls = << >>
    /\ ret = NoRet
    /\ buf = NoBuf
    /\ src = NoBuf
    /\ wake = "none"
    /\ alive = TRUE
    /\ fin = NoBuf
    /\ fout = [fn |-> "none", r |-> "none"]

InitFn ==
    /\ state = Normal
    /\ log = << >>
    /\ calls = << >>
    /\ ret = NoRet
    /\ buf = NoBuf
    /\ src = NoBuf
    /\ wake = "none"
    /\ alive = TRUE
    /\ fin \in FnInputs
    /\ fout = [fn |-> "none", r |-> "none"]

(***************************************************************************)
(* AsyncWrite::poll_write.                                                 *)
(***************************************************************************)
\* an index out of range unwinds out of poll_write before any assignment
Unwind(b) ==
    /\ alive' = FALSE
    /\ ret' = PanicRet
    /\ buf' = b
    /\ calls' = << >>
    /\ wake' = "none"
    /\ UNCHANGED <<state, log, src>>

\* the physical write is added to the history of the logical write
Logged(c) ==
    IF state.tag = "Normal"
    THEN log' = <<c>>
    ELSE Len(log) < MaxLog /\ log' = Append(log, c)

\* a passthrough that suspends on Ready as the fragment arms do
PassthroughSuspends(b, r) ==
    LET c == Call("poll_write", "pass", b, b, r) IN
    /\ Logged(c)
    /\ calls' = <<c>>
    /\ ret' = IF r.kind = "Ready" THEN Pending ELSE r
    /\ wake' = SinkWake(r)
    /\ buf' = b
    /\ UNCHANGED <<state, src, alive>>

\* if !is_hello(buf) { return self.sock().poll_write(cx, buf); }
Passthrough(b, r) ==
    LET c == Call("poll_write", "pass", b, b, r) IN
    /\ Logged(c)
    /\ calls' = <<c>>
    /\ ret' = r
    /\ wake' = SinkWake(r)
    /\ buf' = b
    /\ UNCHANGED <<state, src, alive>>

\* DetourState::Normal => ...
NormalArm(b) ==
    LET f == fragmentate(b) IN
    IF f.kind = "Panic" THEN Unwind(b)
    ELSE
    /\ state' = SendFirst(f.first, f.second)
    /\ ret' = Pending
    /\ calls' = << >>
    /\ log' = << >>
    /\ src' = b
    /\ wake' = "none"
    /\ buf' = b
    /\ UNCHANGED alive

\* the SendFirst arm deriving the fragments anew from the caller's buffer when
\* the sink is not ready
SendFirstArmRefragments(b, r) ==
    LET c == Call("poll_write", "first", b, state.first, r)
        f == Split(b, 5 + (BLen(b) - 5) \div 2)
    IN
    /\ Logged(c)
    /\ calls' = <<c>>
    /\ buf' = b
    /\ IF r.kind = "Ready"
       THEN /\ state' = SendSecond(state.second, r.n)
            /\ wake' = "self"
            /\ ret' = Pending
            /\ src' = src
       ELSE /\ state' = SendFirst(f.first, f.second)
            /\ wake' = SinkWake(r)
            /\ ret' = r
            /\ src' = b
    /\ UNCHANGED alive

\* the SendFirst arm offering the caller's buffer instead of `first`
SendFirstArmUnsplit(b, r) ==
    LET c == Call("poll_write", "first", b, b, r) IN
    /\ Logged(c)
    /\ calls' = <<c>>
    /\ buf' = b
    /\ IF r.kind = "Ready"
       THEN /\ state' = SendSecond(state.second, r.n)
            /\ wake' = "self"
            /\ ret' = Pending
       ELSE /\ state' = state
            /\ wake' = SinkWake(r)
            /\ ret' = r
    /\ UNCHANGED <<src, alive>>

\* DetourState::SendFirst(first, second) => ...
SendFirstArm(b, r) ==
    LET c == Call("poll_write", "first", b, state.first, r) IN
    /\ Logged(c)
    /\ calls' = <<c>>
    /\ buf' = b
    /\ IF r.kind = "Ready"
       THEN /\ state' = SendSecond(state.second, r.n)
            /\ wake' = "self"
            /\ ret' = Pending
       ELSE /\ state' = state
            /\ wake' = SinkWake(r)
            /\ ret' = r
    /\ UNCHANGED <<src, alive>>

\* the total that forgets the count of the first fragment
SecondTotalLast(written, n) == n

\* let res = written + n;
SecondTotal(written, n) == written + n

\* the SendSecond arm offering the second fragment of the caller's buffer
SendSecondArmFromBuf(b, r) ==
    LET f == fragmentate(b)
        d == IF f.kind = "Ok" THEN f.second ELSE state.second
        c == Call("poll_write", "second", b, d, r)
    IN
    /\ Logged(c)
    /\ calls' = <<c>>
    /\ buf' = b
    /\ IF r.kind = "Ready"
       THEN /\ state' = Normal
            /\ wake' = "none"
            /\ ret' = Ready(SecondTotal(state.written, r.n))
       ELSE /\ state' = state
            /\ wake' = SinkWake(r)
            /\ ret' = r
    /\ UNCHANGED <<src, alive>>

\* the SendSecond arm giving the write up when the sink fails
SendSecondArmResets(b, r) ==
    LET c == Call("poll_write", "second", b, state.second, r) IN
    /\ Logged(c)
    /\ calls' = <<c>>
    /\ buf' = b
    /\ IF r.kind = "Ready"
       THEN /\ state' = Normal
            /\ wake' = "none"
            /\ ret' = Ready(SecondTotal(state.written, r.n))
       ELSE /\ state' = IF r.kind = "Err" THEN Normal ELSE state
            /\ wake' = SinkWake(r)
            /\ ret' = r
    /\ UNCHANGED <<src, alive>>

\* DetourState::SendSecond(second, written) => ...
SendSecondArm(b, r) ==
    LET c == Call("poll_write", "second", b, state.second, r) IN
    /\ Logged(c)
    /\ calls' = <<c>>
    /\ buf' = b
    /\ IF r.kind = "Ready"
       THEN /\ state' = Normal
            /\ wake' = "none"
            /\ ret' = Ready(SecondTotal(state.written, r.n))
       ELSE /\ state' = state
            /\ wake' = SinkWake(r)
            /\ ret' = r
    /\ UNCHANGED <<src, alive>>

poll_write(b) ==
    /\ alive
    /\ LET h == is_hello(b) IN
       IF h = "Panic" THEN Unwind(b)
       ELSE IF h = "False" THEN \E r \in SinkWrite(b) : Passthrough(b, r)
       ELSE IF state.tag = "Normal" THEN NormalArm(b)
       ELSE IF state.tag = "SendFirst"
            THEN \E r \in SinkWrite(state.first) : SendFirstArm(b, r)
       ELSE \E r \in SinkWrite(state.second) : SendSecondArm(b, r)
    /\ UNCHANGED <<fin, fout>>

(***************************************************************************)
(* poll_flush, poll_shutdown, poll_read: self.sock().poll_xxx(cx, ..)      *)
(***************************************************************************)
Delegate(op, r) ==
    /\ alive
    /\ calls' = << Call(op, "pass", NoBuf, NoBuf, r) >>
    /\ ret' = r
    /\ wake' = SinkWake(r)
    /\ UNCHANGED <<state, log, buf, src, alive, fin, fout>>

poll_flush == \E r \in SinkUnit : Delegate("poll_flush", r)

\* a shutdown that flushes instead
poll_shutdownFlushes == \E r \in SinkUnit : Delegate("poll_flush", r)

poll_shutdown == \E r \in SinkUnit : Delegate("poll_shutdown", r)

poll_read == \E r \in SinkUnit : Delegate("poll_read", r)

PollWrite == \E b \in Bufs : poll_write(b)

Next ==
    \/ PollWrite
    \/ poll_flush
    \/ poll_shutdown
    \/ poll_read

Spec == Init /\ [][Next]_vars

NextFn ==
    \/ CallIsHello
    \/ CallFindSni
    \/ CallFragmentate

SpecFn == InitFn /\ [][NextFn]_vars

(***************************************************************************)
(* Properties.                                                             *)
(***************************************************************************)
\* the fragment pair of the logical write in progress
Frags == fragmentate(src)

\* the record payload: the bytes after the 5-byte header
Payload(b) == SplitRight(b, 5)

RECURSIVE AcceptedUpTo(_, _)
\* bytes the sink has accepted in the first j physical writes made by `arm`
AcceptedUpTo(arm, j) ==
    IF j = 0 THEN 0
    ELSE AcceptedUpTo(arm, j - 1)
         + (IF log[j].arm = arm /\ log[j].res.kind = "Ready" THEN log[j].res.n ELSE 0)

\* the most recent operation was the poll_write that completed a hello write
Completed ==
    /\ Len(calls) = 1
    /\ calls[1].arm = "second"
    /\ calls[1].res.kind = "Ready"

\* C1: `second` is offered to the sink only once every byte of `first` has
\* been accepted, and a hello write completes (state back to Normal) only
\* once every byte of both fragments has been accepted, for every sink
\* behaviour, partial acceptance included.
C1_FirstFullyAcceptedBeforeSecond ==
    /\ \A j \in 1..Len(log) :
          log[j].arm = "second" => AcceptedUpTo("first", j - 1) = BLen(Frags.first)
    /\ Completed =>
          /\ AcceptedUpTo("first", Len(log)) = BLen(Frags.first)
          /\ AcceptedUpTo("second", Len(log)) = BLen(Frags.second)

\* C2: from the moment the state is SendFirst until the write of `second`
\* completes, every physical write made through poll_write offers the pending
\* fragment and nothing else, whatever buffer the caller passes.
C2_OnlyFragmentsWhileSending ==
    (state.tag # "Normal" \/ Completed) =>
        \A j \in 1..Len(log) :
            \/ log[j].arm = "first" /\ log[j].data = Frags.first
            \/ log[j].arm = "second" /\ log[j].data = Frags.second

\* C3: is_hello never fails, returns false on every buffer of length <= 5,
\* and returns true only if len > 5, buf[0] = 0x16 and buf[5] = 0x01.
C3_IsHelloTotal ==
    fout.fn = "is_hello" =>
        /\ fout.r \in { "True", "False" }
        /\ BLen(fin) <= 5 => fout.r = "False"
        /\ fout.r = "True" =>
              BLen(fin) > 5 /\ At(fin, 0) = Handshake /\ At(fin, 5) = ClientHelloType

\* C4: on every buffer the detector accepts, the SNI scan does not read out
\* of range, the split offset lies in 5..len(buf), and a fragment pair is
\* produced.
C4_FragmentationNeverFails ==
    /\ fout.fn = "find_sni" => fout.r.kind # "Panic"
    /\ fout.fn = "fragmentate" =>
          /\ fout.r.kind = "Ok"
          /\ 5 <= SplitMid(fin) /\ SplitMid(fin) <= BLen(fin)

\* C5: the payloads of the two fragments produced, concatenated, are the
\* payload of the original buffer, byte for byte.
C5_PayloadsConcatenate ==
    (fout.fn = "fragmentate" /\ fout.r.kind = "Ok") =>
        SameBytes(Extend(Payload(fout.r.first), Payload(fout.r.second)), Payload(fin))

C5_Witness ==
    /\ fout.fn = "fragmentate"
    /\ fout.r.kind = "Ok"
    /\ find_sni(fin).kind = "Some"
    /\ BLen(fout.r.first) > 5
    /\ BLen(fout.r.second) > 5

\* C6: in each fragment the 16-bit big-endian length field at bytes 3-4 equals
\* the number of bytes that follow the 5-byte header, whatever the buffer's
\* length.
C6_LengthFieldsExact ==
    (fout.fn = "fragmentate" /\ fout.r.kind = "Ok") =>
        /\ u16_at(fout.r.first, 3) = BLen(fout.r.first) - 5
        /\ u16_at(fout.r.second, 3) = BLen(fout.r.second) - 5

\* C7: the count a completed poll_write reports never exceeds the length of
\* the buffer passed to that call.
C7_CountWithinBuffer ==
    (Len(calls) = 1 /\ calls[1].op = "poll_write" /\ ret.kind = "Ready") =>
        ret.n <= BLen(buf)

\* C8: a completed hello write reports n + n2, the counts the sink returned
\* for `first` and for `second`; when the sink accepted every byte offered
\* that is len(buf) + 5.
C8_ReportsSumOfCounts ==
    Completed =>
        /\ ret = Ready(AcceptedUpTo("first", Len(log)) + calls[1].res.n)
        /\ (/\ AcceptedUpTo("first", Len(log)) = BLen(Frags.first)
            /\ calls[1].res.n = BLen(Frags.second))
           => ret.n = BLen(src) + 5

C8_Witness ==
    /\ Completed
    /\ buf = src
    /\ ret.n = BLen(src) + 5

\* C9: against a sink that completes every write at once, a hello write makes
\* exactly two physical writes before it returns Ready: `first`, then
\* `second`; the unsplit buffer is never offered.
C9_TwoWritesInOrder ==
    (/\ Completed
     /\ \A j \in 1..Len(log) : log[j].arg = src /\ log[j].res.kind = "Ready") =>
        /\ Len(log) = 2
        /\ log[1].data = Frags.first
        /\ log[2].data = Frags.second
        /\ \A j \in 1..Len(log) : ~SameBytes(log[j].data, src)

C9_Witness ==
    /\ Completed
    /\ \A j \in 1..Len(log) : log[j].arg = src
    /\ Len(log) = 2
    /\ log[1].res = Ready(BLen(Frags.first))
    /\ log[2].res = Ready(BLen(Frags.second))

\* C10: in Normal, poll_write with a buffer for which is_hello is false makes
\* exactly one physical write, of that very buffer, returns the sink's result
\* unchanged and leaves the state as it was.
C10_PassthroughInNormal ==
    [][ \A b \in Bufs :
          (state = Normal /\ is_hello(b) = "False" /\ poll_write(b)) =>
              /\ Len(calls') = 1
              /\ calls'[1].op = "poll_write"
              /\ calls'[1].data = b
              /\ ret' = calls'[1].res
              /\ state' = state ]_vars

C10_Witness ==
    /\ state = Normal
    /\ Len(calls) = 1
    /\ calls[1].op = "poll_write"
    /\ calls[1].data = Data1
    /\ ret = Ready(BLen(Data1))

\* C11: when the sink returns Pending for the write of `first`, the state
\* stays SendFirst with the same stored pair, the next poll_write with the
\* same buffer offers the very same `first` again, and while the state is
\* SendFirst or SendSecond no poll_write derives the fragments anew.
C11_PendingKeepsFirst ==
    [][ \A b \in Bufs :
          (state.tag # "Normal" /\ poll_write(b) /\ alive') =>
              /\ src' = src
              /\ state'.tag # "Normal" => state'.second = Frags.second
              /\ state'.tag = "SendFirst" => state'.first = Frags.first
              /\ (/\ state.tag = "SendFirst"
                  /\ is_hello(b) = "True"
                  /\ calls'[1].res.kind = "Pending") =>
                     state' = state /\ ret' = Pending
              /\ (/\ state.tag = "SendFirst"
                  /\ b = src
                  /\ Len(log) > 0
                  /\ log[Len(log)].arm = "first"
                  /\ log[Len(log)].res.kind = "Pending") =>
                     /\ calls'[1].data = log[Len(log)].data
                     /\ calls'[1].data = Frags.first ]_vars

C11_Witness ==
    /\ Len(log) = 2
    /\ log[1].arm = "first" /\ log[1].arg = src /\ log[1].res.kind = "Pending"
    /\ log[2].arm = "first" /\ log[2].arg = src
    /\ log[2].data = log[1].data

\* C12: when the sink returns an error for the write made in SendFirst or in
\* SendSecond, poll_write returns that error, the DetourState is unchanged
\* and no further physical write is made in that call.
C12_ErrorKeepsState ==
    [][ \A b \in Bufs :
          (/\ state.tag # "Normal"
           /\ poll_write(b)
           /\ Len(calls') >= 1
           /\ calls'[1].res.kind = "Err") =>
              /\ ret' = calls'[1].res
              /\ state' = state
              /\ Len(calls') = 1
              /\ log' = Append(log, calls'[1]) ]_vars

C12_Witness ==
    /\ state.tag = "SendSecond"
    /\ Len(calls) = 1
    /\ calls[1].arm = "second"
    /\ ret = Err

\* C13: poll_flush, poll_shutdown and poll_read, in any DetourState, make
\* exactly the one corresponding call on the sink, return its result
\* unchanged, write no fragment and leave the DetourState as it was.
Delegated(op) ==
    /\ Len(calls') = 1
    /\ calls'[1].op = op
    /\ ret' = calls'[1].res
    /\ state' = state
    /\ log' = log

C13_DelegatesPassThrough ==
    [][ /\ poll_flush => Delegated("poll_flush")
        /\ poll_shutdown => Delegated("poll_shutdown")
        /\ poll_read => Delegated("poll_read") ]_vars

C13_Witness ==
    /\ state.tag = "SendFirst"
    /\ Len(calls) = 1
    /\ calls[1].op = "poll_shutdown"
    /\ ret = Pending

\* C14: in Normal, poll_write with a buffer for which is_hello is true
\* computes the fragment pair, sets the state to SendFirst(first, second),
\* returns Pending and makes no call on the sink.
C14_HelloInNormalSuspends ==
    [][ \A b \in Bufs :
          (state = Normal /\ is_hello(b) = "True" /\ poll_write(b)) =>
              /\ fragmentate(b).kind = "Ok"
              /\ state' = SendFirst(fragmentate(b).first, fragmentate(b).second)
              /\ ret' = Pending
              /\ calls' = << >> ]_vars

\* the input is a well-formed ClientHello record with a server_name extension
\* described by p
IsSniRecord(p) == fin = Bytes(SniRecord(p))

\* the input is a well-formed ClientHello record without server_name
IsNoSniRecord == \E r \in WellFormedNoSni : fin = Bytes(r)

\* C15: for a well-formed ClientHello whose server_name extension carries a
\* hostname of h >= 3 bytes starting at offset s, the split offset is
\* s + h / 2, strictly between the first and the last hostname byte.
C15_SplitInsideHostname ==
    \A p \in WellFormedSni :
        (IsSniRecord(p) /\ p.h >= 3 /\ fout.fn = "find_sni") =>
            LET s == HostOffset(p.sid, p.cs, p.before) IN
            /\ fout.r = Some(s + p.h \div 2)
            /\ s < fout.r.v
            /\ fout.r.v < s + p.h - 1

\* C16: for a well-formed ClientHello without an extension of type 0 (an
\* empty extension list included) the SNI scan returns None and the split
\* offset is the payload midpoint 5 + (len(buf) - 5) / 2.
C16_NoSniMidpoint ==
    IsNoSniRecord =>
        /\ fout.fn = "find_sni" => fout.r = None
        /\ fout.fn = "fragmentate" =>
              /\ fout.r.kind = "Ok"
              /\ BLen(fout.r.first) = 5 + (BLen(fin) - 5) \div 2
              /\ BLen(fout.r.second) = 5 + BLen(fin) - BLen(fout.r.first)

C16_Witness ==
    /\ IsNoSniRecord
    /\ fout.fn = "fragmentate"
    /\ fout.r.kind = "Ok"
    /\ BLen(fin) > 60

C18_PendingHasWake ==
    (alive /\ ret.kind = "Pending" /\ (calls = << >> \/ calls[1].op = "poll_write")) =>
        wake # "none"

\* the fragment arm `arm` offered `data`, a fragment of the buffer `b`
FragmentOf(arm, data, b) ==
    LET f == fragmentate(b) IN
    f.kind = "Ok" =>
        SameBytes(data, IF arm = "first" THEN f.first ELSE f.second)

\* C19: every fragment offered to the sink during a call poll_write(buf) is a
\* fragment derived from the buf of that call, and the count reported when the
\* write completes is that of the fragments of that buf, also after a hello
\* write was abandoned and a different hello buffer is written.
C19_FragmentsOfCallBuffer ==
    /\ \A j \in 1..Len(log) :
          log[j].arm \in {"first", "second"} =>
              FragmentOf(log[j].arm, log[j].data, log[j].arg)
    /\ (Completed /\ fragmentate(calls[1].arg).kind = "Ok") =>
          ret.n <= BLen(fragmentate(calls[1].arg).first)
                   + BLen(fragmentate(calls[1].arg).second)

\* C19 as amended: every fragment offered to the sink between the hello write
\* that left Normal and the return to Normal is a fragment of the buffer that
\* started the write, whatever buffer the later calls pass, and the count
\* reported at completion is bounded by the fragments of that buffer.
C19_FragmentsOfStartingBuffer ==
    /\ \A j \in 1..Len(log) :
          log[j].arm \in {"first", "second"} =>
              /\ Frags.kind = "Ok"
              /\ FragmentOf(log[j].arm, log[j].data, src)
    /\ Completed =>
          ret.n <= BLen(Frags.first) + BLen(Frags.second)

C19_Witness ==
    /\ Len(log) = 2
    /\ log[1].arm = "first"
    /\ log[1].arg = src
    /\ log[1].res.kind \in {"Err", "Pending"}
    /\ log[2].arm = "first"
    /\ log[2].arg # src
    /\ fragmentate(log[2].arg).kind = "Ok"
    /\ ~SameBytes(log[2].data, fragmentate(log[2].arg).first)

\* C20: whenever fragmentate returns for a buffer accepted by is_hello, both
\* fragments carry a non-empty payload: len(first) > 5 and len(second) > 5,
\* for the SNI-derived offset and for the midpoint, for malformed as well as
\* well-formed extension lengths.
C20_BothPayloadsNonEmpty ==
    (fout.fn = "fragmentate" /\ fout.r.kind = "Ok" /\ is_hello(fin) = "True") =>
        /\ BLen(fout.r.first) > 5
        /\ BLen(fout.r.second) > 5

====
